---- MODULE Spec2Model ----
(***************************************************************************)
(* Model of src/server.js: the /analyze handler, its in-memory session     *)
(* store, mergeIntel and sendFinalCallback.                                *)
(*                                                                         *)
(* The handler is an async function on a single-threaded event loop: it    *)
(* runs without interruption between its two suspension points, the        *)
(* Classifier call (line 152) and the Notifier call (line 75).  Each       *)
(* action below is one such uninterrupted run.                             *)
(***************************************************************************)
EXTENDS Naturals, Sequences, FiniteSets, TLC

VARIABLES sessions, reqs, notifyLog, calls

vars == <<sessions, reqs, notifyLog, calls>>

(***************************************************************************)
(* Bounds                                                                  *)
(***************************************************************************)
\* number of requests that arrive in a behaviour
MaxTurns == 2
\* length of the lists given to mergeIntel when it is exercised on its own
MaxLen == 2

Ids == 1..MaxTurns

(***************************************************************************)
(* JavaScript values.  Scalars are strings; an object is a record, and an  *)
(* absent property is a field that is not in the record's domain.          *)
(***************************************************************************)
true == "true"
false == "false"
undefined == "undefined"

\* an object without properties
Nothing == [x \in {} |-> x]

\* obj.f
Prop(obj, f) == IF f \in DOMAIN obj THEN obj[f] ELSE undefined

\* obj.f?.g
OptProp(obj, f, g) == IF f \in DOMAIN obj THEN Prop(obj[f], g) ELSE undefined

\* ToBoolean of a scalar
Truthy(v) == v \notin {undefined, false, ""}

Range(s) == {s[i] : i \in DOMAIN s}

(***************************************************************************)
(* mergeIntel                                                              *)
(***************************************************************************)
IntelFields ==
  {"bankAccounts", "upiIds", "phishingLinks", "phoneNumbers", "suspiciousKeywords"}

RECURSIVE Uniq(_)
\* [...new Set(s)]: the distinct elements of s in first-seen order
Uniq(s) ==
  IF s = <<>> THEN <<>>
  ELSE LET front == Uniq(SubSeq(s, 1, Len(s) - 1))
           last == s[Len(s)]
       IN IF last \in Range(front) THEN front ELSE Append(front, last)

\* mergeIntel throws a TypeError: newI is undefined (hasNew is false), or a
\* field of newI is undefined and cannot be spread
mergeIntelThrows(hasNew, newI) ==
  \/ ~hasNew
  \/ \E f \in IntelFields : f \notin DOMAIN newI

mergeIntel_noDedupe(oldI, newI) ==
  [f \in IntelFields |-> oldI[f] \o newI[f]]

mergeIntel_wrongField(oldI, newI) ==
  [f \in IntelFields |->
     Uniq(oldI[f] \o newI[IF f = "phoneNumbers" THEN "upiIds" ELSE f])]

mergeIntel(oldI, newI) ==
  [f \in IntelFields |-> Uniq(oldI[f] \o newI[f])]

(***************************************************************************)
(* Inputs                                                                  *)
(***************************************************************************)
EmptyIntel == [f \in IntelFields |-> <<>>]

M1 == [sender |-> "scammer", text |-> "send money"]
M2 == [sender |-> "user", text |-> "who is this"]
H1 == <<[sender |-> "scammer", text |-> "hello", timestamp |-> 0]>>
H2 == <<[sender |-> "user", text |-> "yes?"]>>

ValidBodies ==
  { [sessionId |-> "s1", message |-> M1],
    [sessionId |-> "s1", message |-> M2, conversationHistory |-> H2],
    [sessionId |-> "s2", message |-> M1, conversationHistory |-> H2] }

IncompleteBodies ==
  { [message |-> M1, conversationHistory |-> H1],
    [sessionId |-> "s1", message |-> [sender |-> "scammer"]],
    [sessionId |-> "s2", message |-> [text |-> "hi"], conversationHistory |-> H1],
    [sessionId |-> "s1", conversationHistory |-> H1] }

Bodies == ValidBodies \cup IncompleteBodies

\* objects the Classifier's text can parse to
Results ==
  { [scamDetected |-> false, agentReply |-> "hello there",
     extractedIntelligence |-> EmptyIntel, agentNotes |-> "benign"],
    [scamDetected |-> true, agentReply |-> "tell me more",
     extractedIntelligence |-> [EmptyIntel EXCEPT !.phoneNumbers = <<"111">>],
     agentNotes |-> "asks for money"],
    [scamDetected |-> true, agentReply |-> "which number",
     extractedIntelligence |->
       [EmptyIntel EXCEPT !.phoneNumbers = <<"222", "111", "222">>,
                          !.upiIds = <<"a@upi">>],
     agentNotes |-> "gave upi"],
    [agentReply |-> "ok",
     extractedIntelligence |-> [EmptyIntel EXCEPT !.suspiciousKeywords = <<"urgent">>]],
    [scamDetected |-> false, agentReply |-> "hm",
     extractedIntelligence |->
       [f \in IntelFields \ {"phoneNumbers"} |->
          IF f = "upiIds" THEN <<"b@upi">> ELSE <<>>],
     agentNotes |-> "partial"],
    [scamDetected |-> true, agentReply |-> "really"] }

\* aiResponse.text: a JSON document or something else, fenced or not
Texts ==
  [fenced : BOOLEAN, json : Results] \cup [fenced : BOOLEAN]

\* what the awaited Classifier call settles to
ClassifierOutcomes ==
  {[rejected |-> TRUE]} \cup [rejected : {FALSE}, text : Texts]

(***************************************************************************)
(* extractJSON                                                             *)
(***************************************************************************)
\* text.replace(/```json|```/gi, "").trim()
cleaned(text) == [f \in DOMAIN text \ {"fenced"} |-> text[f]]

\* JSON.parse throws a SyntaxError
extractJSONThrows(text) == "json" \notin DOMAIN cleaned(text)

extractJSON(text) == cleaned(text).json

(***************************************************************************)
(* Responses                                                               *)
(***************************************************************************)
Res400 == [status |-> "400", error |-> "Invalid request format"]
Res500 == [status |-> "500", error |-> "Internal server error"]
ResSuccess(result) ==
  [status |-> "200", body_status |-> "success", reply |-> Prop(result, "agentReply")]

(***************************************************************************)
(* State                                                                   *)
(***************************************************************************)
\* a request that has not arrived
IdleReq ==
  [pc |-> "idle", body |-> Nothing, before |-> Nothing, result |-> Nothing,
   parsed |-> FALSE, notify |-> "none", response |-> Nothing]

\* calls holds the arguments and results of mergeIntel when the function is
\* exercised on its own (MergeSpec); the server leaves it empty
Init ==
  /\ sessions = Nothing
  /\ reqs = [r \in Ids |-> IdleReq]
  /\ notifyLog = <<>>
  /\ calls = Nothing

arrived == Cardinality({r \in Ids : reqs[r].pc # "idle"})
inFlight == {r \in Ids : reqs[r].pc \in {"classify", "notify"}}

\* sessions.set(sessionId, session), and every write through the reference
put_evict(store, session) ==
  (session.sessionId :> session)

put(store, session) ==
  (session.sessionId :> session) @@ store

(***************************************************************************)
(* /analyze, lines 94-152: up to the await of the Classifier call          *)
(***************************************************************************)
invalidRequest_noSender(body) ==
  \/ ~Truthy(Prop(body, "sessionId"))
  \/ ~Truthy(OptProp(body, "message", "text"))

invalidRequest(body) ==
  \/ ~Truthy(Prop(body, "sessionId"))
  \/ ~Truthy(OptProp(body, "message", "text"))
  \/ ~Truthy(OptProp(body, "message", "sender"))

\* const { conversationHistory = [] } = req.body
conversationHistory(body) ==
  IF "conversationHistory" \in DOMAIN body THEN body.conversationHistory ELSE <<>>

newSession_sentAtStart(body) ==
  [sessionId |-> body.sessionId,
   history |-> conversationHistory(body),
   scamDetected |-> false,
   intelligence |-> EmptyIntel,
   agentNotes |-> "",
   finalCallbackSent |-> true]

newSession(body) ==
  [sessionId |-> body.sessionId,
   history |-> conversationHistory(body),
   scamDetected |-> false,
   intelligence |-> EmptyIntel,
   agentNotes |-> "",
   finalCallbackSent |-> false]

resolveSession_reseed(store, body) ==
  IF body.sessionId \in DOMAIN store
    THEN [store[body.sessionId] EXCEPT !.history = conversationHistory(body)]
    ELSE newSession(body)

resolveSession(store, body) ==
  IF body.sessionId \in DOMAIN store
    THEN store[body.sessionId]
    ELSE newSession(body)

Receive(body) ==
  /\ arrived < MaxTurns
  /\ LET r == arrived + 1
     IN IF invalidRequest(body)
          THEN /\ reqs' = [reqs EXCEPT ![r] =
                             [@ EXCEPT !.pc = "done", !.body = body,
                                       !.response = Res400]]
               /\ UNCHANGED <<sessions, notifyLog>>
          ELSE LET session == resolveSession(sessions, body)
                   pushed == [session EXCEPT
                                !.history = Append(@, Prop(body, "message"))]
               IN /\ sessions' = put(sessions, pushed)
                  /\ reqs' = [reqs EXCEPT ![r] =
                                [@ EXCEPT !.pc = "classify", !.body = body,
                                          !.before = session]]
                  /\ UNCHANGED notifyLog

\* a request arrives while others may be suspended
ReceiveConcurrent ==
  /\ \E body \in Bodies : Receive(body)
  /\ UNCHANGED calls

\* the caller submits the turns one after the other
ReceiveSequential ==
  /\ inFlight = {}
  /\ \E body \in Bodies : Receive(body)
  /\ UNCHANGED calls

(***************************************************************************)
(* sendFinalCallback                                                       *)
(***************************************************************************)
payload_beforeReply(session) ==
  [sessionId |-> session.sessionId,
   scamDetected |-> true,
   totalMessagesExchanged |-> Len(session.history) - 1,
   extractedIntelligence |-> session.intelligence,
   agentNotes |-> session.agentNotes]

payload(session) ==
  [sessionId |-> session.sessionId,
   scamDetected |-> true,
   totalMessagesExchanged |-> Len(session.history),
   extractedIntelligence |-> session.intelligence,
   agentNotes |-> session.agentNotes]

(***************************************************************************)
(* /analyze, lines 152-180: the Classifier call settles                    *)
(***************************************************************************)
scamDetectedUpdate_assign(session, result) ==
  Prop(result, "scamDetected")

\* session.scamDetected ||= result.scamDetected
scamDetectedUpdate(session, result) ==
  IF Truthy(session.scamDetected)
    THEN session.scamDetected
    ELSE Prop(result, "scamDetected")

\* the sender of the synthesized reply
replySender == "user"

currentSession_copy(r) ==
  [reqs[r].before EXCEPT !.history = Append(@, reqs[r].body.message)]

\* session, after the await: the variable refers to the object in the store,
\* with every write other turns made to it in the meantime
currentSession(r) ==
  sessions[reqs[r].body.sessionId]

Fail_uncaught(r, result, isParsed) ==
  reqs' = [reqs EXCEPT ![r] =
             [@ EXCEPT !.pc = "crashed", !.result = result, !.parsed = isParsed]]

Fail(r, result, isParsed) ==
  reqs' = [reqs EXCEPT ![r] =
             [@ EXCEPT !.pc = "done", !.result = result, !.parsed = isParsed,
                       !.response = Res500]]

ClassifierReturn(r, outcome) ==
  /\ reqs[r].pc = "classify"
  /\ LET sid == reqs[r].body.sessionId
         session == currentSession(r)
     IN IF outcome.rejected \/ extractJSONThrows(outcome.text)
          THEN /\ Fail(r, Nothing, FALSE)
               /\ UNCHANGED <<sessions, notifyLog>>
          ELSE LET result == extractJSON(outcome.text)
                   s1 == [session EXCEPT
                            !.scamDetected = scamDetectedUpdate(session, result)]
                   hasIntel == "extractedIntelligence" \in DOMAIN result
                   newI == IF hasIntel THEN result.extractedIntelligence ELSE Nothing
               IN IF mergeIntelThrows(hasIntel, newI)
                    THEN /\ sessions' = put(sessions, s1)
                         /\ Fail(r, result, TRUE)
                         /\ UNCHANGED notifyLog
                    ELSE LET s2 == [s1 EXCEPT
                                      !.intelligence = mergeIntel(@, newI),
                                      !.agentNotes = Prop(result, "agentNotes"),
                                      !.history = Append(@,
                                         [sender |-> replySender,
                                          text |-> Prop(result, "agentReply"),
                                          timestamp |-> r])]
                         IN /\ sessions' = put(sessions, s2)
                            /\ IF Truthy(s2.scamDetected) /\ ~Truthy(s2.finalCallbackSent)
                                 THEN /\ notifyLog' = Append(notifyLog,
                                            [turn |-> r, summary |-> payload(s2)])
                                      /\ reqs' = [reqs EXCEPT ![r] =
                                            [@ EXCEPT !.pc = "notify",
                                                      !.result = result,
                                                      !.parsed = TRUE,
                                                      !.notify = "pending"]]
                                 ELSE /\ reqs' = [reqs EXCEPT ![r] =
                                            [@ EXCEPT !.pc = "done",
                                                      !.result = result,
                                                      !.parsed = TRUE,
                                                      !.response = ResSuccess(result)]]
                                      /\ UNCHANGED notifyLog

ClassifierSettles ==
  /\ \E r \in Ids : \E outcome \in ClassifierOutcomes : ClassifierReturn(r, outcome)
  /\ UNCHANGED calls

(***************************************************************************)
(* sendFinalCallback, lines 74-86, and /analyze, lines 185-188: the        *)
(* Notifier call settles                                                   *)
(***************************************************************************)
NotifierReturn_noCatch(r, ok) ==
  /\ reqs[r].pc = "notify"
  /\ LET session == sessions[reqs[r].body.sessionId]
     IN IF ok
          THEN /\ sessions' = put(sessions, [session EXCEPT !.finalCallbackSent = true])
               /\ reqs' = [reqs EXCEPT ![r] =
                             [@ EXCEPT !.pc = "done", !.notify = "ok",
                                       !.response = ResSuccess(reqs[r].result)]]
          ELSE /\ UNCHANGED sessions
               /\ reqs' = [reqs EXCEPT ![r] =
                             [@ EXCEPT !.pc = "done", !.notify = "failed",
                                       !.response = Res500]]
  /\ UNCHANGED notifyLog

NotifierReturn(r, ok) ==
  /\ reqs[r].pc = "notify"
  /\ LET session == sessions[reqs[r].body.sessionId]
     IN IF ok
          THEN sessions' = put(sessions, [session EXCEPT !.finalCallbackSent = true])
          ELSE UNCHANGED sessions
  /\ reqs' = [reqs EXCEPT ![r] =
                [@ EXCEPT !.pc = "done",
                          !.notify = IF ok THEN "ok" ELSE "failed",
                          !.response = ResSuccess(reqs[r].result)]]
  /\ UNCHANGED notifyLog

NotifierSettles ==
  /\ \E r \in Ids : \E ok \in BOOLEAN : NotifierReturn(r, ok)
  /\ UNCHANGED calls

(***************************************************************************)
(* Specifications                                                          *)
(***************************************************************************)
Next == ReceiveConcurrent \/ ClassifierSettles \/ NotifierSettles

Spec == Init /\ [][Next]_vars

NextSeq == ReceiveSequential \/ ClassifierSettles \/ NotifierSettles

SpecSeq == Init /\ [][NextSeq]_vars

(***************************************************************************)
(* mergeIntel on its own: the arguments are drawn at the start, the steps  *)
(* apply the function                                                      *)
(***************************************************************************)
Values == {"111", "222"}

\* the lists over Values of length at most MaxLen, repeats included
Lists == UNION {[1..n -> Values] : n \in 0..MaxLen}

\* snapshots with all five fields present
Snapshots ==
  {[f \in IntelFields |-> IF f = "phoneNumbers" THEN p ELSE o] :
     p \in Lists, o \in Lists}

MergeInit ==
  /\ sessions = Nothing
  /\ reqs = [r \in Ids |-> IdleReq]
  /\ notifyLog = <<>>
  /\ calls \in [A : Snapshots, B : Snapshots]

\* mergeIntel(A, B)
MergeAB ==
  /\ "AB" \notin DOMAIN calls
  /\ calls' = ("AB" :> mergeIntel(calls.A, calls.B)) @@ calls
  /\ UNCHANGED <<sessions, reqs, notifyLog>>

\* mergeIntel(mergeIntel(A, B), B)
MergeABB ==
  /\ "AB" \in DOMAIN calls
  /\ "ABB" \notin DOMAIN calls
  /\ calls' = ("ABB" :> mergeIntel(calls.AB, calls.B)) @@ calls
  /\ UNCHANGED <<sessions, reqs, notifyLog>>

\* mergeIntel(B, A)
MergeBA ==
  /\ "BA" \notin DOMAIN calls
  /\ calls' = ("BA" :> mergeIntel(calls.B, calls.A)) @@ calls
  /\ UNCHANGED <<sessions, reqs, notifyLog>>

MergeNext == MergeAB \/ MergeABB \/ MergeBA

MergeSpec == MergeInit /\ [][MergeNext]_vars

(***************************************************************************)
(* Vocabulary of the properties                                            *)
(***************************************************************************)
SessionIds == {"s1", "s2"}

sidOf(r) == Prop(reqs[r].body, "sessionId")

status(r) == Prop(reqs[r].response, "status")

\* the requests that passed validation for session s, in arrival order
TurnsOf(s) ==
  {r \in Ids : reqs[r].pc # "idle" /\ status(r) # "400" /\ sidOf(r) = s}

Min(S) == CHOOSE x \in S : \A y \in S : x <= y

\* a parsed object has the Classifier Result shape
WellFormed(result) ==
  /\ {"scamDetected", "agentReply", "extractedIntelligence", "agentNotes"}
       \subseteq DOMAIN result
  /\ IntelFields \subseteq DOMAIN result.extractedIntelligence

\* the turns of s whose Classifier Result said scamDetected = true
ScamTurns(s) ==
  {r \in TurnsOf(s) : /\ reqs[r].parsed
                      /\ WellFormed(reqs[r].result)
                      /\ reqs[r].result.scamDetected = true}

\* the Notifier invocations made for session s
Invocations(s) ==
  {i \in DOMAIN notifyLog : notifyLog[i].summary.sessionId = s}

\* C1: on sequential turns of one session, with turn k the first whose
\* Classifier result has scamDetected = true, the Notifier is invoked exactly
\* once, at turn k, whatever the outcome of that invocation.
C1_NotifierOnceAtFirstScamTurn ==
  \A s \in SessionIds :
    ScamTurns(s) # {} =>
      /\ Cardinality(Invocations(s)) = 1
      /\ \A i \in Invocations(s) : notifyLog[i].turn = Min(ScamTurns(s))

\* C2: when turns of one session overlap, no other turn of the session passes
\* the check of finalCallbackSent between a turn's check and its setting of
\* the flag, so two turns of one session are never both suspended in the
\* Notifier call.
C2_NoTurnBetweenCheckAndSet ==
  \A r1, r2 \in Ids :
    (r1 # r2 /\ reqs[r1].pc = "notify" /\ reqs[r2].pc = "notify")
      => sidOf(r1) # sidOf(r2)

\* C3: a turn that reached the terminal check with scamDetected true and
\* finalCallbackSent false leaves finalCallbackSent true when it returns,
\* whether the Notifier call succeeded or failed.
C3_FlagSetWhateverTheOutcome ==
  \A r \in Ids :
    (reqs[r].pc = "done" /\ reqs[r].notify # "none")
      => sessions[sidOf(r)].finalCallbackSent = true

\* C4: after a turn whose Classifier step failed, the history is the history
\* before the turn plus the inbound message, and scamDetected, intelligence,
\* agentNotes and finalCallbackSent are what they were before the turn; the
\* caller gets a processing failure.  (Stated of the latest turn, on
\* sequential turns.)
C4_ClassifierFailureLeavesState ==
  \A r \in Ids :
    (r = arrived /\ reqs[r].pc = "done" /\ status(r) = "500")
      => LET s == sessions[sidOf(r)]
             b == reqs[r].before
         IN /\ s.history = Append(b.history, reqs[r].body.message)
            /\ s.scamDetected = b.scamDetected
            /\ s.intelligence = b.intelligence
            /\ s.agentNotes = b.agentNotes
            /\ s.finalCallbackSent = b.finalCallbackSent

\* the result carries extractedIntelligence, with one of the five fields absent
OmitsIntelField(result) ==
  /\ "extractedIntelligence" \in DOMAIN result
  /\ \E f \in IntelFields : f \notin DOMAIN result.extractedIntelligence

\* C5: a turn whose Classifier result omits one of the five intelligence
\* fields completes successfully and returns the reply.
C5_AbsentFieldTolerated ==
  \A r \in Ids :
    (reqs[r].pc = "done" /\ reqs[r].parsed /\ OmitsIntelField(reqs[r].result))
      => /\ status(r) = "200"
         /\ reqs[r].response.reply = reqs[r].result.agentReply

NoDuplicates(seq) == \A i, j \in DOMAIN seq : i # j => seq[i] # seq[j]

IntelGrows ==
  \A s \in DOMAIN sessions :
    /\ s \in DOMAIN sessions'
    /\ \A f \in IntelFields :
         Range(sessions[s].intelligence[f]) \subseteq Range(sessions'[s].intelligence[f])

IntelNoDuplicates ==
  \A s \in DOMAIN sessions :
    \A f \in IntelFields : NoDuplicates(sessions[s].intelligence[f])

\* C6: in every step each of the five intelligence fields of every session
\* keeps all the values it had, and no field ever holds a value twice.
C6_IntelligenceOnlyGrows ==
  [][IntelGrows /\ IntelNoDuplicates /\ IntelNoDuplicates']_vars

\* two merges, the second repeating a value of the first
C6_Witness ==
  \E s \in DOMAIN sessions :
    /\ sessions[s].intelligence.phoneNumbers = <<"111", "222">>
    /\ Cardinality({r \in TurnsOf(s) : status(r) = "200"}) = 2

\* C7: once the result of a turn had scamDetected = true, the session's
\* scamDetected is true, in that state and in every later one.
C7_ScamDetectedMonotonic ==
  \A r \in Ids :
    (reqs[r].parsed /\ Prop(reqs[r].result, "scamDetected") = true)
      => sessions[sidOf(r)].scamDetected = true

\* a later turn of the session settled with a result that is not true, or failed
C7_Witness ==
  \E r1, r2 \in Ids :
    /\ r1 < r2
    /\ sidOf(r1) = sidOf(r2)
    /\ reqs[r1].pc = "done" /\ reqs[r1].parsed
    /\ Prop(reqs[r1].result, "scamDetected") = true
    /\ reqs[r2].pc = "done" /\ status(r2) \in {"200", "500"}
    /\ Prop(reqs[r2].result, "scamDetected") # true

\* the body lacks sessionId, message.text or message.sender
Lacks(body) ==
  \/ "sessionId" \notin DOMAIN body
  \/ "message" \notin DOMAIN body
  \/ "text" \notin DOMAIN body.message
  \/ "sender" \notin DOMAIN body.message

\* C8: the arrival of a request that lacks sessionId, message.text or
\* message.sender ends in a validation failure and leaves the session store
\* as it was.
C8_ValidationLeavesStore ==
  [][\A r \in Ids :
       (reqs[r].pc = "idle" /\ reqs'[r].pc # "idle" /\ Lacks(reqs'[r].body))
         => /\ reqs'[r].pc = "done"
            /\ reqs'[r].response.status = "400"
            /\ sessions' = sessions]_vars

\* a rejected request that names a session which exists
C8_Witness ==
  \E r \in Ids :
    /\ status(r) = "400"
    /\ sidOf(r) \in DOMAIN sessions
    /\ "message" \in DOMAIN reqs[r].body

\* C9: the history of a session starts with the conversationHistory of the
\* first turn for its sessionId, followed by that turn's message, whatever
\* conversationHistory later turns carry.
C9_SeededOnce ==
  \A s \in DOMAIN sessions :
    LET c == Min(TurnsOf(s))
        seed == conversationHistory(reqs[c].body)
        h == sessions[s].history
    IN /\ Len(h) > Len(seed)
       /\ SubSeq(h, 1, Len(seed)) = seed
       /\ h[Len(seed) + 1] = reqs[c].body.message

\* a second turn for the session carried another conversationHistory
C9_Witness ==
  \E r1, r2 \in Ids :
    /\ r1 < r2
    /\ r1 \in TurnsOf(sidOf(r1))
    /\ r2 \in TurnsOf(sidOf(r1))
    /\ conversationHistory(reqs[r1].body) # conversationHistory(reqs[r2].body)

\* C10: a turn whose Notifier call settled, failed or not, returns success
\* with the agentReply of its Classifier result.
C10_NotifierFailureSwallowed ==
  \A r \in Ids :
    reqs[r].notify \in {"ok", "failed"}
      => /\ reqs[r].pc = "done"
         /\ reqs[r].response =
              [status |-> "200", body_status |-> "success",
               reply |-> reqs[r].result.agentReply]

C10_Witness ==
  \E r \in Ids : reqs[r].pc = "done" /\ reqs[r].notify = "failed"

(***************************************************************************)
(* Properties of the history                                               *)
(***************************************************************************)
IsPrefix(s, t) == Len(s) <= Len(t) /\ SubSeq(t, 1, Len(s)) = s

\* the history of the session of request r, before and after the step
historyOf(r) ==
  IF sidOf(r) \in DOMAIN sessions THEN sessions[sidOf(r)].history ELSE <<>>

\* turn r got past the Classifier step: its result was merged
Merged(r) ==
  \/ reqs[r].pc = "notify"
  \/ reqs[r].pc = "done" /\ status(r) = "200"

\* what the step of request r appends to the history of its session
HistoryStep(r) ==
  LET sid == Prop(reqs'[r].body, "sessionId")
      old == IF sid \in DOMAIN sessions
               THEN sessions[sid].history
               ELSE conversationHistory(reqs'[r].body)
      new == sessions'[sid].history
  IN \* the request arrives and passes validation: the inbound message
     /\ (reqs[r].pc = "idle" /\ reqs'[r].pc = "classify")
          => new = Append(old, reqs'[r].body.message)
     \* the Classifier step succeeds: one reply, with the agentReply as text
     /\ (reqs[r].pc = "classify" /\ reqs'[r].pc = "notify")
          => /\ Len(new) = Len(old) + 1
             /\ IsPrefix(old, new)
             /\ new[Len(new)].text = Prop(reqs'[r].result, "agentReply")
     /\ (reqs[r].pc = "classify" /\ reqs'[r].pc = "done"
           /\ reqs'[r].response.status = "200")
          => /\ Len(new) = Len(old) + 1
             /\ IsPrefix(old, new)
             /\ new[Len(new)].text = reqs'[r].response.reply
     \* the Classifier step fails: nothing beyond the inbound message
     /\ (reqs[r].pc = "classify" /\ reqs'[r].pc = "done"
           /\ reqs'[r].response.status = "500")
          => new = old
     \* the Notifier call settles: nothing
     /\ reqs[r].pc = "notify" => new = old

Stage(session) ==
  IF session.finalCallbackSent = true THEN 2
  ELSE IF session.scamDetected = true THEN 1
  ELSE 0

\* C12: in every state finalCallbackSent = true implies scamDetected = true,
\* and in every step finalCallbackSent stays true once true, scamDetected
\* stays true once true, and no session moves to an earlier stage.
C12_FlagsMonotonic ==
  [][\A s \in DOMAIN sessions :
       /\ s \in DOMAIN sessions'
       /\ sessions[s].finalCallbackSent = true => sessions[s].scamDetected = true
       /\ sessions'[s].finalCallbackSent = true => sessions'[s].scamDetected = true
       /\ sessions[s].finalCallbackSent = true => sessions'[s].finalCallbackSent = true
       /\ sessions[s].scamDetected = true => sessions'[s].scamDetected = true
       /\ Stage(sessions[s]) <= Stage(sessions'[s])]_vars

\* a turn settled on a session that was already REPORTED when it arrived
C12_Witness ==
  \E r \in Ids :
    /\ reqs[r].pc = "done"
    /\ reqs[r].parsed
    /\ Stage(reqs[r].before) = 2
    /\ Prop(reqs[r].result, "scamDetected") # true

(***************************************************************************)
(* Properties of mergeIntel                                                *)
(***************************************************************************)
SameSets(X, Y) == \A f \in IntelFields : Range(X[f]) = Range(Y[f])

\* C13: for snapshots A and B with all five fields present,
\* merge(merge(A, B), B) has in each field the same set of values as
\* merge(A, B), and merge(A, B) the same set as merge(B, A).
C13_MergeIdempotentCommutative ==
  /\ "ABB" \in DOMAIN calls => SameSets(calls.ABB, calls.AB)
  /\ {"AB", "BA"} \subseteq DOMAIN calls => SameSets(calls.AB, calls.BA)

\* all three calls made, on lists that overlap, differ and repeat a value
C13_Witness ==
  /\ {"AB", "ABB", "BA"} \subseteq DOMAIN calls
  /\ calls.A.phoneNumbers = <<"111", "222">>
  /\ calls.B.phoneNumbers = <<"222", "222">>
  /\ calls.A.upiIds = <<>>
  /\ calls.B.upiIds = <<"111">>
  /\ calls.AB # calls.BA

(***************************************************************************)
(* Every turn is answered                                                  *)
(***************************************************************************)
\* the Classifier and Notifier calls each eventually return or fail
FairSpec ==
  Init /\ [][Next]_vars /\ WF_vars(ClassifierSettles) /\ WF_vars(NotifierSettles)

\* request r has its one response: validation failure, processing failure or
\* success with reply
Answered(r) ==
  /\ reqs[r].pc = "done"
  /\ \/ reqs[r].response = Res400
     \/ reqs[r].response = Res500
     \/ /\ DOMAIN reqs[r].response = {"status", "body_status", "reply"}
        /\ reqs[r].response.status = "200"
        /\ reqs[r].response.body_status = "success"

\* C14: from some point on every request that has arrived is answered, with
\* a validation failure, a processing failure or success with reply, and
\* stays so, whatever errors its own and the other turns raised.
C14_EveryTurnAnswered ==
  <>[](\A r \in Ids : reqs[r].pc = "idle" \/ Answered(r))

\* both requests answered, the first with a processing failure
C14_Witness ==
  /\ \A r \in Ids : Answered(r)
  /\ status(1) = "500"
  /\ status(2) = "200"

(***************************************************************************)
(* Overlapping turns of one session                                        *)
(***************************************************************************)
\* where the inbound message of turn r sits in the history of its session
inboundAt(r) == Len(reqs[r].before.history) + 1

\* the reply that turn r synthesized
replyOf(r) ==
  [sender |-> replySender, text |-> Prop(reqs[r].result, "agentReply"),
   timestamp |-> r]

\* C15: in the history of a session the inbound message of every successful
\* turn is immediately followed by the reply of that same turn, also when
\* turns of the session arrive concurrently.
C15_TurnsSerialized ==
  \A r \in Ids :
    Merged(r) =>
      LET h == historyOf(r)
      IN /\ Len(h) > inboundAt(r)
         /\ h[inboundAt(r)] = reqs[r].body.message
         /\ h[inboundAt(r) + 1] = replyOf(r)

(***************************************************************************)
(* The summary given to the Notifier                                       *)
(***************************************************************************)
\* C16: in the step in which turn r invokes the Notifier, the summary has
\* totalMessagesExchanged = the length of the history with the inbound
\* message and the reply of turn r in it, extractedIntelligence = the merged
\* intelligence, with the values extracted at turn r, agentNotes = the
\* agentNotes of turn r's result, and scamDetected = true.
C16_SummaryAfterMergeAndReply ==
  [][\A r \in Ids :
       (reqs[r].pc = "classify" /\ reqs'[r].pc = "notify")
         => LET after == sessions'[reqs[r].body.sessionId]
                result == reqs'[r].result
                summary == notifyLog'[Len(notifyLog')].summary
            IN /\ Len(notifyLog') = Len(notifyLog) + 1
               /\ notifyLog'[Len(notifyLog')].turn = r
               /\ summary.sessionId = reqs[r].body.sessionId
               /\ summary.scamDetected = true
               /\ summary.totalMessagesExchanged = Len(after.history)
               /\ after.history[Len(after.history)].text = Prop(result, "agentReply")
               /\ after.history[Len(after.history)].timestamp = r
               /\ after.history[inboundAt(r)] = reqs[r].body.message
               /\ summary.totalMessagesExchanged > inboundAt(r)
               /\ summary.extractedIntelligence = after.intelligence
               /\ \A f \in IntelFields :
                    Range(result.extractedIntelligence[f])
                      \subseteq Range(summary.extractedIntelligence[f])
               /\ summary.agentNotes = Prop(result, "agentNotes")]_vars

\* a summary sent at the second turn of a session, carrying values of both turns
C16_Witness ==
  \E i \in DOMAIN notifyLog :
    /\ notifyLog[i].turn = 2
    /\ notifyLog[i].summary.totalMessagesExchanged = 4
    /\ notifyLog[i].summary.extractedIntelligence.phoneNumbers = <<"111", "222">>
    /\ notifyLog[i].summary.agentNotes = "gave upi"

(***************************************************************************)
(* agentNotes                                                              *)
(***************************************************************************)
\* C17: after a successful turn (the latest one, on sequential turns) the
\* session's agentNotes is the agentNotes of that turn's result, and the
\* empty string when the result carries none.
C17_AgentNotesLastWrite ==
  \A r \in Ids :
    (r = arrived /\ reqs[r].pc = "done" /\ status(r) = "200")
      => sessions[sidOf(r)].agentNotes =
           IF "agentNotes" \in DOMAIN reqs[r].result
             THEN reqs[r].result.agentNotes
             ELSE ""

(***************************************************************************)
(* Provenance of the messages in a history                                 *)
(***************************************************************************)
\* the messages request r supplied from outside: its conversationHistory,
\* when it seeded the session, and its inbound message
SuppliedBy(r) ==
  (IF reqs[r].before.history = conversationHistory(reqs[r].body)
     /\ r = Min(TurnsOf(sidOf(r)))
     THEN Range(conversationHistory(reqs[r].body))
     ELSE {})
  \cup {reqs[r].body.message}

\* C18: no externally supplied message that entered a history carries the
\* sender of the synthesized replies, so the sender tells the two apart.
C18_ReplySenderDistinct ==
  \A s \in SessionIds :
    \A r \in TurnsOf(s) :
      \A m \in SuppliedBy(r) : m.sender # replySender

(***************************************************************************)
(* Merges of overlapping turns                                             *)
(***************************************************************************)
\* turn r2 arrived while turn r1 of the same session awaited the Classifier
Overlapped(r1, r2) ==
  /\ r1 < r2
  /\ sidOf(r1) = sidOf(r2)
  /\ reqs[r1].pc # "idle" /\ status(r1) # "400"
  /\ reqs[r2].pc # "idle" /\ status(r2) # "400"
  /\ Len(reqs[r2].before.history) = inboundAt(r1)

\* C19: when two turns of a session overlapped and both were merged, the
\* session's intelligence holds every value either of them extracted, and
\* scamDetected is true if either result had scamDetected = true, whichever
\* of the two settled first.
C19_NoLostMerge ==
  \A r1, r2 \in Ids :
    (Overlapped(r1, r2) /\ Merged(r1) /\ Merged(r2))
      => LET session == sessions[sidOf(r1)]
         IN /\ \A r \in {r1, r2} : \A f \in IntelFields :
                 Range(reqs[r].result.extractedIntelligence[f])
                   \subseteq Range(session.intelligence[f])
            /\ (\E r \in {r1, r2} : Prop(reqs[r].result, "scamDetected") = true)
                 => session.scamDetected = true

\* two overlapped turns, the later one settled first, extracting different
\* values, one of them with scamDetected = true
C19_Witness ==
  \E r1, r2 \in Ids :
    /\ Overlapped(r1, r2)
    /\ reqs[r1].pc = "done" /\ status(r1) = "200"
    /\ reqs[r2].pc = "done" /\ status(r2) = "200"
    /\ reqs[r1].result.extractedIntelligence.suspiciousKeywords = <<"urgent">>
    /\ reqs[r2].result.extractedIntelligence.phoneNumbers = <<"111">>
    /\ historyOf(r1)[inboundAt(r1) + 2] = replyOf(r2)

(***************************************************************************)
(* Isolation of the sessions                                               *)
(***************************************************************************)
\* the session the step is for: that of the one request whose pc changes
Stepping(s) ==
  \E r \in Ids :
    /\ reqs'[r].pc # reqs[r].pc
    /\ Prop(reqs'[r].body, "sessionId") = s

\* C20: a step for one sessionId leaves every other session as it was, and
\* no step removes a session from the store.
C20_SessionsIsolated ==
  [][\A s \in DOMAIN sessions :
       /\ s \in DOMAIN sessions'
       /\ sessions'[s] # sessions[s] => Stepping(s)]_vars

\* two sessions seeded from the same conversationHistory; the turn of the
\* second one arrived and returned while the turn of the first was suspended
\* in the Notifier call
C20_Witness ==
  /\ DOMAIN sessions = {"s1", "s2"}
  /\ sidOf(1) # sidOf(2)
  /\ conversationHistory(reqs[1].body) = conversationHistory(reqs[2].body)
  /\ conversationHistory(reqs[1].body) # <<>>
  /\ reqs[1].pc = "notify"
  /\ reqs[2].pc = "done" /\ status(2) = "200"
  /\ sessions[sidOf(1)].scamDetected = true
  /\ sessions[sidOf(2)].scamDetected = false
  /\ sessions[sidOf(1)].history[Len(sessions[sidOf(1)].history)].timestamp = 1
  /\ sessions[sidOf(2)].history[Len(sessions[sidOf(2)].history)].timestamp = 2

====
